---- MODULE Spec2Model ----
(***************************************************************************)
(* A model of gpgsplode.py: export of GPG keyrings to a snapshot           *)
(* directory, and the metadata check that guards export and import.        *)
(*                                                                         *)
(* A Python string is a sequence of one-character strings; NL is the       *)
(* newline character.  A file holds such a sequence.                       *)
(***************************************************************************)
EXTENDS Integers, Sequences, FiniteSets, TLC

VARIABLES
    config,      \* parsed command line: action, include_secret_keys, and whether --gnupg-home is a directory
    tool,        \* what the gpg program answers to each invocation of this run
    fs,          \* the snapshot directory
    pc,          \* position of the run
    exc,         \* the exception in flight, cls = "none" when there is none
    keyrings,    \* App._keyrings, once built
    ri,          \* index of the ring the export loop is at
    bi,          \* index of the block the export loop is at
    result,      \* how the process ended
    runNo,       \* which run of the program this is
    fs0,         \* the snapshot directory as the current run found it
    written,     \* the paths the current run has opened for writing or created
    prevWritten, \* the same, for the run before
    lines,       \* Grouplines: the constructor's argument
    groups,      \* Grouplines: self.groups after construction
    gdone,       \* Grouplines: constructed
    trust0,      \* Ownertrust: one output of gpg --export-ownertrust (its lines)
    trustCur,    \* Ownertrust: another output, got from trust0 by reordering and adding comments
    trustStr     \* Ownertrust: exportstr() of each, once called

vars == <<config, tool, fs, pc, exc, keyrings, ri, bi, result, runNo, fs0,
          written, prevWritten, lines, groups, gdone, trust0, trustCur, trustStr>>

runVars == <<config, tool, fs, pc, exc, keyrings, ri, bi, result, runNo, fs0,
             written, prevWritten>>
groupVars == <<lines, groups, gdone>>
trustVars == <<trust0, trustCur, trustStr>>

----------------------------------------------------------------------------
(* Bounds of the model. *)

MaxRuns == 2          \* runs of the program in a row
MaxGroups == 2        \* key groups in a generated listing
MaxLines == 5         \* lines handed to Grouplines
MaxTrustLines == 3    \* lines of a generated ownertrust output
MaxTrustComments == 1 \* comment lines added to it

----------------------------------------------------------------------------
(* Python strings. *)

NL == "\n"

IsSpace(c) == c \in {" ", NL, "\t"}

\* Byte order of the characters the model uses (their ASCII codes).
Ord(c) ==
    CASE c = "\t" -> 9
      [] c = NL -> 10
      [] c = " " -> 32
      [] c = "#" -> 35
      [] c = "-" -> 45
      [] c = "." -> 46
      [] c = "/" -> 47
      [] c = "A" -> 65
      [] c = "B" -> 66
      [] c = "C" -> 67
      [] c = "E" -> 69
      [] c = "a" -> 97
      [] c = "b" -> 98
      [] c = "c" -> 99
      [] c = "e" -> 101
      [] c = "k" -> 107
      [] c = "p" -> 112
      [] c = "r" -> 114
      [] c = "s" -> 115
      [] c = "t" -> 116
      [] c = "u" -> 117
      [] c = "x" -> 120
      [] OTHER -> 127

RECURSIVE LStrip(_)
LStrip(s) == IF s # <<>> /\ IsSpace(Head(s)) THEN LStrip(Tail(s)) ELSE s

RECURSIVE RStrip(_)
RStrip(s) ==
    IF s # <<>> /\ IsSpace(s[Len(s)]) THEN RStrip(SubSeq(s, 1, Len(s) - 1)) ELSE s

\* str.strip()
Strip(s) == RStrip(LStrip(s))

\* str.split(d): one more piece than there are d's in s; ''.split(d) = ['']
RECURSIVE SplitAcc(_, _, _)
SplitAcc(s, d, cur) ==
    IF s = <<>> THEN <<cur>>
    ELSE IF Head(s) = d THEN <<cur>> \o SplitAcc(Tail(s), d, <<>>)
    ELSE SplitAcc(Tail(s), d, Append(cur, Head(s)))

Split(s, d) == SplitAcc(s, d, <<>>)

\* str.split(): the maximal runs of non-whitespace characters
RECURSIVE SplitWSAcc(_, _)
SplitWSAcc(s, cur) ==
    IF s = <<>> THEN (IF cur = <<>> THEN <<>> ELSE <<cur>>)
    ELSE IF IsSpace(Head(s))
         THEN (IF cur = <<>> THEN <<>> ELSE <<cur>>) \o SplitWSAcc(Tail(s), <<>>)
    ELSE SplitWSAcc(Tail(s), Append(cur, Head(s)))

SplitWS(s) == SplitWSAcc(s, <<>>)

\* sep.join(parts)
RECURSIVE Join(_, _)
Join(parts, sep) ==
    IF parts = <<>> THEN <<>>
    ELSE IF Len(parts) = 1 THEN parts[1]
    ELSE parts[1] \o sep \o Join(Tail(parts), sep)

\* str.startswith(c) for a one-character c
StartsWith(s, c) == s # <<>> /\ Head(s) = c

\* a < b for Python byte strings
RECURSIVE StrLess(_, _)
StrLess(a, b) ==
    IF b = <<>> THEN FALSE
    ELSE IF a = <<>> THEN TRUE
    ELSE IF Head(a) = Head(b) THEN StrLess(Tail(a), Tail(b))
    ELSE Ord(Head(a)) < Ord(Head(b))

StrLeq(a, b) == a = b \/ StrLess(a, b)

\* list.sort() of a list of strings
RECURSIVE InsertSorted(_, _)
InsertSorted(sorted, x) ==
    IF sorted = <<>> THEN <<x>>
    ELSE IF StrLess(x, Head(sorted)) THEN <<x>> \o sorted
    ELSE <<Head(sorted)>> \o InsertSorted(Tail(sorted), x)

RECURSIVE SortLines(_)
SortLines(ls) ==
    IF ls = <<>> THEN <<>> ELSE InsertSorted(SortLines(SubSeq(ls, 1, Len(ls) - 1)), ls[Len(ls)])

\* The sequences over S of length at most n.
SeqsUpTo(S, n) == UNION { [1..k -> S] : k \in 0..n }

----------------------------------------------------------------------------
(* Running gpg: sc2internal. *)

NoExc == [cls |-> "none", msg |-> ""]
Raise(cls, msg) == [cls |-> cls, msg |-> msg]

\* sc2(cmd)[0] of a process that exits with rc having printed out on stdout:
\* CalledProcessError on a non-zero exit, else stdout stripped.
Sc2(proc) ==
    IF proc.rc # 0
    THEN [exc |-> Raise("CalledProcessError", "gpg exited non-zero"), out |-> <<>>]
    ELSE [exc |-> NoExc, out |-> Strip(proc.out)]

----------------------------------------------------------------------------
(* Grouplines. *)

\* finish_group, on the pair (self.groups, self.group)
finish_group(st) ==
    IF st.group # <<>>
    THEN [groups |-> Append(st.groups, st.group), group |-> <<>>]
    ELSE st

\* one turn of the loop of __init__
GroupStep(st, line) ==
    IF line = <<>>
    THEN finish_group(st)
    ELSE [st EXCEPT !.group = Append(@, line)]

RECURSIVE GroupLoop(_, _)
GroupLoop(st, ls) ==
    IF ls = <<>> THEN st ELSE GroupLoop(GroupStep(st, Head(ls)), Tail(ls))

\* the loop without the finish_group() that follows it
GrouplinesNoFinal(ls) == GroupLoop([groups |-> <<>>, group |-> <<>>], ls).groups

\* Grouplines(lines).groups
Grouplines(ls) == finish_group(GroupLoop([groups |-> <<>>, group |-> <<>>], ls)).groups

----------------------------------------------------------------------------
(* Ownertrust. *)

IsComment(l) == StartsWith(l, "#")

\* [l for l in ls if not l.startswith('#')]
RECURSIVE DropComments(_)
DropComments(ls) ==
    IF ls = <<>> THEN <<>>
    ELSE (IF IsComment(Head(ls)) THEN <<>> ELSE <<Head(ls)>>) \o DropComments(Tail(ls))

\* exportstr() without lines.sort()
OwnertrustUnsorted(proc) ==
    LET r == Sc2(proc) IN
    IF r.exc.cls # "none" THEN [exc |-> r.exc, out |-> <<>>]
    ELSE [exc |-> NoExc, out |-> Join(DropComments(Split(r.out, NL)), <<NL>>)]

\* Ownertrust.exportstr() when gpg --export-ownertrust behaves as proc
OwnertrustExportstr(proc) ==
    LET r == Sc2(proc) IN
    IF r.exc.cls # "none" THEN [exc |-> r.exc, out |-> <<>>]
    ELSE [exc |-> NoExc,
          out |-> Join(SortLines(DropComments(Split(r.out, NL))), <<NL>>)]

----------------------------------------------------------------------------
(* The snapshot directory.  A node is absent, a regular file holding data,  *)
(* or a directory; the key files of a ring are a function from the names    *)
(* that exist to their contents.                                            *)

RingNames == {"pubring", "secring"}

Absent == [kind |-> "absent", data |-> <<>>]
FileOf(data) == [kind |-> "file", data |-> data]
Dir == [kind |-> "dir", data |-> <<>>]
NoFiles == [r \in RingNames |-> <<>>]

NodeAt(files, name) == IF name \in DOMAIN files THEN FileOf(files[name]) ELSE Absent

\* open(path, 'a') of a node: the contents stay.
OpenAppend(node) ==
    IF node.kind = "dir" THEN [exc |-> Raise("IOError", "is a directory"), node |-> node]
    ELSE [exc |-> NoExc, node |-> FileOf(node.data)]

\* dbfile(relpath, 'w') of a node in an existing directory: IOError on a
\* directory, else the file exists and is empty.
OpenW(node) ==
    IF node.kind = "dir" THEN [exc |-> Raise("IOError", "is a directory"), node |-> node]
    ELSE [exc |-> NoExc, node |-> FileOf(<<>>)]

\* f.write(text)
FWrite(node, text) == FileOf(node.data \o text)

\* safe_makedirs(path) on the kind of what is at path: the exception, and the kind after
safe_makedirs(kind) ==
    IF kind = "dir" THEN [exc |-> NoExc, kind |-> "dir"]
    ELSE IF kind = "file"
    THEN [exc |-> Raise("AppError", "something in the way"), kind |-> kind]
    ELSE [exc |-> NoExc, kind |-> "dir"]

----------------------------------------------------------------------------
(* The metadata file. *)

version == "1.0"

Q == "\""

\* json.dump({"version": v}, f, indent=2)
JsonDump(v) == <<"{", NL, " ", " ", Q, "version", Q, ":", " ", Q, v, Q, NL, "}">>

RECURSIVE DropSpace(_)
DropSpace(s) ==
    IF s = <<>> THEN <<>>
    ELSE (IF IsSpace(Head(s)) THEN <<>> ELSE <<Head(s)>>) \o DropSpace(Tail(s))

\* json.load(f): the dict read (a function from its keys), or ValueError
JsonLoad(data) ==
    LET t == DropSpace(data) IN
    IF t = <<"{", "}">> THEN [exc |-> NoExc, val |-> <<>>]
    ELSE IF /\ Len(t) = 9
            /\ <<t[1], t[2], t[4], t[5], t[6], t[8], t[9]>> = <<"{", Q, Q, ":", Q, Q, "}">>
    THEN [exc |-> NoExc, val |-> (t[3] :> t[7])]
    ELSE [exc |-> Raise("ValueError", "no JSON"), val |-> <<>>]

\* check_meta with the test of the version left out
check_meta_unversioned(f, require_meta) ==
    IF f.root # "dir" \/ f.meta.kind # "file"
    THEN (IF ~require_meta THEN NoExc ELSE Raise("AppError", "Could not read"))
    ELSE LET meta == JsonLoad(f.meta.data) IN
         IF meta.exc.cls # "none" THEN meta.exc
         ELSE IF "version" \notin DOMAIN meta.val THEN Raise("KeyError", "version")
         ELSE NoExc

\* check_meta(require_meta): the exception it raises, NoExc when it returns
check_meta(f, require_meta) ==
    IF f.root # "dir" \/ f.meta.kind # "file"
    THEN (IF ~require_meta THEN NoExc ELSE Raise("AppError", "Could not read"))
    ELSE LET meta == JsonLoad(f.meta.data) IN
         IF meta.exc.cls # "none" THEN meta.exc
         ELSE IF "version" \notin DOMAIN meta.val THEN Raise("KeyError", "version")
         ELSE IF meta.val["version"] # version THEN Raise("AppError", "claims version")
         ELSE NoExc

\* write_meta(): the exception, and the directory after
write_meta(f) ==
    LET o == OpenW(f.meta) IN
    IF o.exc.cls # "none" THEN [exc |-> o.exc, fs |-> f]
    ELSE [exc |-> NoExc, fs |-> [f EXCEPT !.meta = FWrite(o.node, JsonDump(version))]]

----------------------------------------------------------------------------
(* Block and Keyring. *)

pub == <<"p", "u", "b">>
sec == <<"s", "e", "c">>

\* Block.parse_description
parse_description(description_lines) ==
    LET pieces == SplitWS(description_lines[1]) IN
    IF Len(pieces) < 2
    THEN [exc |-> Raise("IndexError", "list index out of range"), keytype |-> <<>>, keyid |-> <<>>]
    ELSE LET p2 == Split(pieces[2], "/") IN
         IF Len(p2) < 2
         THEN [exc |-> Raise("IndexError", "list index out of range"),
               keytype |-> <<>>, keyid |-> <<>>]
         ELSE [exc |-> NoExc, keytype |-> pieces[1], keyid |-> p2[2]]

\* Block(description_lines)
Block(description_lines) ==
    LET d == parse_description(description_lines) IN
    [exc |-> d.exc,
     block |-> [description_lines |-> description_lines,
                keytype |-> d.keytype, keyid |-> d.keyid]]

\* [Block(g) for g in gs]: the blocks, or the exception of the first that fails
RECURSIVE Blocks(_)
Blocks(gs) ==
    IF gs = <<>> THEN [exc |-> NoExc, blocks |-> <<>>]
    ELSE LET b == Block(Head(gs)) IN
         IF b.exc.cls # "none" THEN [exc |-> b.exc, blocks |-> <<>>]
         ELSE LET rest == Blocks(Tail(gs)) IN
              IF rest.exc.cls # "none" THEN rest
              ELSE [exc |-> NoExc, blocks |-> <<b.block>> \o rest.blocks]

\* Block.export_option
export_option(b) ==
    IF b.keytype = pub THEN [exc |-> NoExc, opt |-> "--export"]
    ELSE IF b.keytype = sec THEN [exc |-> NoExc, opt |-> "--export-secret-keys"]
    ELSE [exc |-> Raise("AppError", "unknown keytype"), opt |-> ""]

\* What gpg --armor <opt> <keyid> prints.
ArmorText(opt, keyid) ==
    <<"-", "B", NL>> \o (IF opt = "--export" THEN <<"p">> ELSE <<"s">>) \o keyid
        \o <<NL, "-", "E", NL>>

\* Block.armor
armor(b, t) ==
    LET o == export_option(b) IN
    IF o.exc.cls # "none" THEN [exc |-> o.exc, out |-> <<>>]
    ELSE Sc2([rc |-> t.armorRc, out |-> ArmorText(o.opt, b.keyid)])

\* Block.exportfilename
exportfilename(b) == b.keyid \o <<".">> \o b.keytype \o <<".", "a", "s", "c">>

\* Block.exportstr
exportstr(b, t) ==
    LET a == armor(b, t) IN
    IF a.exc.cls # "none" THEN [exc |-> a.exc, out |-> <<>>]
    ELSE [exc |-> NoExc, out |-> Join(b.description_lines, <<NL>>) \o <<NL, NL>> \o a.out]

\* a match that accepts every line
MatchDashesAny(line) == TRUE

\* re.match('-+', line)
MatchDashes(line) == StartsWith(line, "-")

\* Keyring(name, list_option) when gpg <list_option> behaves as proc
Keyring(name, proc) ==
    LET r == Sc2(proc)
        ls == Split(r.out, NL)
        none == [name |-> name, blocks |-> <<>>]
    IN
    IF r.exc.cls # "none" THEN [exc |-> r.exc, ring |-> none]
    ELSE IF Len(ls) < 2 THEN [exc |-> NoExc, ring |-> none]
    ELSE IF ls[1] = <<>> THEN [exc |-> Raise("IndexError", "string index out of range"), ring |-> none]
    ELSE IF ls[1][1] # "/" THEN [exc |-> Raise("AppError", "keyring name"), ring |-> none]
    ELSE IF ~MatchDashes(ls[2]) THEN [exc |-> Raise("AppError", "gpg output"), ring |-> none]
    ELSE LET bs == Blocks(Grouplines(SubSeq(ls, 3, Len(ls)))) IN
         [exc |-> bs.exc, ring |-> [name |-> name, blocks |-> bs.blocks]]

\* The rings keyrings() builds, in order.
RingOrder(cfg) ==
    (IF cfg.include_public_keys THEN <<"pubring">> ELSE <<>>)
        \o (IF cfg.include_secret_keys THEN <<"secring">> ELSE <<>>)

\* App.keyrings(): the list, or the exception of the first Keyring that fails
RECURSIVE BuildKeyrings(_, _)
BuildKeyrings(names, t) ==
    IF names = <<>> THEN [exc |-> NoExc, rings |-> <<>>]
    ELSE LET k == Keyring(Head(names), t.list[Head(names)]) IN
         IF k.exc.cls # "none" THEN [exc |-> k.exc, rings |-> <<>>]
         ELSE LET rest == BuildKeyrings(Tail(names), t) IN
              IF rest.exc.cls # "none" THEN rest
              ELSE [exc |-> NoExc, rings |-> <<k.ring>> \o rest.rings]

----------------------------------------------------------------------------
(* What the run can meet: gpg's answers, the command line, the directory.  *)

pubA == <<"p", "u", "b", " ", "r", "/", "A">>
pubB == <<"p", "u", "b", " ", "r", "/", "B">>
secB == <<"s", "e", "c", " ", "r", "/", "B">>
crtC == <<"c", "r", "t", " ", "r", "/", "C">>
uid == <<"u", " ", "x">>

\* The groups a listing is made of: two well-formed keys, a key of an unknown
\* kind, a first line of one field, a second field without '/'.
GroupSet ==
    { <<pubA, uid>>, <<pubB>>, <<crtC>>, << <<"p", "u", "b">> >>,
      << <<"p", "u", "b", " ", "r", "A">> >> }

RECURSIVE GroupText(_)
GroupText(gs) ==
    IF gs = <<>> THEN <<>> ELSE Head(gs) \o << <<>> >> \o GroupText(Tail(gs))

\* gpg's output for these lines, each ended by a newline
Printed(ls) == IF ls = <<>> THEN <<>> ELSE Join(ls, <<NL>>) \o <<NL>>

banner == <<"/", "k">>
dashes == <<"-", "-">>

Listing(head, gs) == [rc |-> 0, out |-> Printed(head \o GroupText(gs))]

GoodListings == { Listing(<<banner, dashes>>, gs) : gs \in SeqsUpTo(GroupSet, MaxGroups) }

\* No '/' at the start; a second line that is no row of dashes; the row of
\* dashes missing, so that the first key line is the second line.
BadListings ==
    { Listing(<< <<"k">>, dashes>>, << <<pubA, uid>> >>),
      Listing(<<banner, <<"x">> >>, << <<pubA, uid>> >>),
      Listing(<<banner>>, << <<pubA, uid>> >>) }

\* Nothing printed (an empty keyring); the banner alone.
ShortListings == { [rc |-> 0, out |-> <<>>], Listing(<<banner>>, <<>>) }

\* A second line that starts with a dash and is no row of dashes.
OddListings == { Listing(<<banner, <<"-", "x">> >>, << <<pubA, uid>> >>) }

FailedProc == [rc |-> 2, out |-> <<>>]

OneKey == Listing(<<banner, dashes>>, << <<pubA, uid>> >>)
OneSecretKey == Listing(<<banner, dashes>>, << <<secB>> >>)

TrustLines == <<<<"b", ":">>, <<"#", "c">>, <<"a", ":">>>>
TrustProc == [rc |-> 0, out |-> Printed(TrustLines)]

MkTool(p, s, a, t) ==
    [list |-> [r \in RingNames |-> IF r = "pubring" THEN p ELSE s],
     armorRc |-> a, trust |-> t]

MkConfig(action, secret, home) ==
    [action |-> action, include_public_keys |-> TRUE, include_secret_keys |-> secret,
     gnupg_home_isdir |-> home]

\* The runs the model starts: every public listing; the secret ring as well;
\* gpg failing at each of its uses; a missing $GNUPGHOME; import.
Scenarios ==
    { [config |-> MkConfig("export", FALSE, TRUE), tool |-> MkTool(p, FailedProc, 0, TrustProc)] :
        p \in GoodListings \cup BadListings \cup ShortListings \cup OddListings
                \cup {FailedProc} }
    \cup
    { [config |-> MkConfig("export", TRUE, TRUE), tool |-> MkTool(p, s, 0, TrustProc)] :
        p \in {OneKey, [rc |-> 0, out |-> <<>>]},
        s \in {OneSecretKey, FailedProc} \cup BadListings }
    \cup
    { [config |-> MkConfig("export", FALSE, TRUE), tool |-> MkTool(OneKey, FailedProc, a, t)] :
        a \in {0, 2}, t \in {FailedProc, [rc |-> 0, out |-> <<>>]} }
    \cup
    { [config |-> MkConfig(a, FALSE, h), tool |-> MkTool(OneKey, FailedProc, 0, TrustProc)] :
        a \in {"export", "import"}, h \in BOOLEAN }

StoredVersions == {"1.0", "0.9", "2.0", "1.00"}

\* What can be at gpgsplode_meta: nothing, a stamp of some version, a JSON
\* object without a version, something that is no JSON, a directory.
MetaInits ==
    {Absent, Dir, FileOf(<<"{", "}">>), FileOf(<<"x">>)}
        \cup { FileOf(JsonDump(v)) : v \in StoredVersions }

oldKey == <<"o", "l", "d">>

\* What else can be in the directory: nothing; an earlier snapshot; a file
\* where the pubring directory belongs.
LayoutInits ==
    { [ring |-> [r \in RingNames |-> "absent"], files |-> NoFiles, ownertrust |-> Absent],
      [ring |-> [r \in RingNames |-> IF r = "pubring" THEN "dir" ELSE "absent"],
       files |-> [r \in RingNames |->
                     IF r = "pubring"
                     THEN (exportfilename(Block(<<pubA>>).block) :> oldKey)
                          @@ (exportfilename(Block(<<crtC>>).block) :> oldKey)
                     ELSE <<>>],
       ownertrust |-> FileOf(oldKey)],
      [ring |-> [r \in RingNames |-> IF r = "pubring" THEN "file" ELSE "absent"],
       files |-> NoFiles, ownertrust |-> Dir] }

MkFs(root, meta, l) ==
    [root |-> root, meta |-> meta, ring |-> l.ring, files |-> l.files,
     ownertrust |-> l.ownertrust]

EmptyLayout == [ring |-> [r \in RingNames |-> "absent"], files |-> NoFiles, ownertrust |-> Absent]

FsInits ==
    { MkFs("absent", Absent, EmptyLayout), MkFs("file", Absent, EmptyLayout) }
        \cup { MkFs("dir", m, l) : m \in MetaInits, l \in LayoutInits }

NoneWritten == [meta |-> FALSE, ownertrust |-> FALSE, keys |-> {}, dirs |-> {}]

IdleGroup == lines = <<>> /\ groups = <<>> /\ gdone = FALSE
IdleTrust == trust0 = <<>> /\ trustCur = <<>> /\ trustStr = <<>>

Init ==
    /\ \E sc \in Scenarios : config = sc.config /\ tool = sc.tool
    /\ fs \in FsInits
    /\ fs0 = fs
    /\ pc = "init"
    /\ exc = NoExc
    /\ keyrings = <<>>
    /\ ri = 1
    /\ bi = 1
    /\ result = "running"
    /\ runNo = 1
    /\ written = NoneWritten
    /\ prevWritten = NoneWritten
    /\ IdleGroup
    /\ IdleTrust

----------------------------------------------------------------------------
(* The run. *)

\* An exception leaves for the handler of __main__.
Fail(e) == exc' = e /\ pc' = "exit"

\* Where the export loops stand after block b of ring r is done with.
RECURSIVE LoopAt(_, _, _)
LoopAt(rings, r, b) ==
    IF r > Len(rings) THEN [pc |-> "ownertrust", ri |-> r, bi |-> 1]
    ELSE IF b > Len(rings[r].blocks) THEN
        (IF r + 1 > Len(rings) THEN [pc |-> "ownertrust", ri |-> r + 1, bi |-> 1]
         ELSE [pc |-> "ringdir", ri |-> r + 1, bi |-> 1])
    ELSE [pc |-> "block", ri |-> r, bi |-> b]

\* App.__init__: setup_gnupghome
setup_gnupghome ==
    /\ pc = "init"
    /\ IF ~config.gnupg_home_isdir
       THEN Fail(Raise("AppError", "$GNUPGHOME missing"))
       ELSE /\ pc' = (IF config.action = "export" THEN "makedirs" ELSE "import")
            /\ exc' = exc
    /\ UNCHANGED <<config, tool, fs, keyrings, ri, bi, result, runNo, fs0, written,
                   prevWritten>>
    /\ UNCHANGED <<groupVars, trustVars>>

\* import_action
import_action ==
    /\ pc = "import"
    /\ exc' = check_meta(fs, TRUE)
    /\ pc' = "exit"
    /\ UNCHANGED <<config, tool, fs, keyrings, ri, bi, result, runNo, fs0, written,
                   prevWritten>>
    /\ UNCHANGED <<groupVars, trustVars>>

\* export_action: self.safe_makedirs(self.config.directory)
ExportMakedirs ==
    /\ pc = "makedirs"
    /\ LET m == safe_makedirs(fs.root) IN
       IF m.exc.cls # "none"
       THEN Fail(m.exc) /\ UNCHANGED <<fs, written>>
       ELSE /\ fs' = [fs EXCEPT !.root = m.kind]
            /\ written' = IF fs.root = "dir" THEN written
                          ELSE [written EXCEPT !.dirs = @ \cup {"root"}]
            /\ pc' = "check_meta"
            /\ exc' = exc
    /\ UNCHANGED <<config, tool, keyrings, ri, bi, result, runNo, fs0, prevWritten>>
    /\ UNCHANGED <<groupVars, trustVars>>

\* export_action going on whatever check_meta finds
ExportCheckMetaIgnored ==
    /\ pc = "check_meta"
    /\ pc' = "write_meta"
    /\ UNCHANGED <<config, tool, fs, exc, keyrings, ri, bi, result, runNo, fs0, written,
                   prevWritten>>
    /\ UNCHANGED <<groupVars, trustVars>>

\* export_action: self.check_meta(False)
ExportCheckMeta ==
    /\ pc = "check_meta"
    /\ LET e == check_meta(fs, FALSE) IN
       IF e.cls # "none" THEN Fail(e) ELSE pc' = "write_meta" /\ exc' = exc
    /\ UNCHANGED <<config, tool, fs, keyrings, ri, bi, result, runNo, fs0, written,
                   prevWritten>>
    /\ UNCHANGED <<groupVars, trustVars>>

\* export_action listing the keyrings without having stamped the directory
ExportWriteMetaSkipped ==
    /\ pc = "write_meta"
    /\ pc' = "keyrings"
    /\ UNCHANGED <<config, tool, fs, exc, keyrings, ri, bi, result, runNo, fs0, written,
                   prevWritten>>
    /\ UNCHANGED <<groupVars, trustVars>>

\* export_action: self.write_meta()
ExportWriteMeta ==
    /\ pc = "write_meta"
    /\ LET w == write_meta(fs) IN
       IF w.exc.cls # "none"
       THEN Fail(w.exc) /\ UNCHANGED <<fs, written>>
       ELSE /\ fs' = w.fs
            /\ written' = [written EXCEPT !.meta = TRUE]
            /\ pc' = "keyrings"
            /\ exc' = exc
    /\ UNCHANGED <<config, tool, keyrings, ri, bi, result, runNo, fs0, prevWritten>>
    /\ UNCHANGED <<groupVars, trustVars>>

\* export_action: the first self.keyrings() of "for ring in self.keyrings()"
ExportKeyrings ==
    /\ pc = "keyrings"
    /\ LET k == BuildKeyrings(RingOrder(config), tool) IN
       IF k.exc.cls # "none"
       THEN Fail(k.exc) /\ UNCHANGED <<keyrings, ri, bi>>
       ELSE /\ keyrings' = k.rings
            /\ ri' = 1
            /\ bi' = 1
            /\ pc' = (IF k.rings = <<>> THEN "ownertrust" ELSE "ringdir")
            /\ exc' = exc
    /\ UNCHANGED <<config, tool, fs, result, runNo, fs0, written, prevWritten>>
    /\ UNCHANGED <<groupVars, trustVars>>

\* export_action: self.safe_makedirs(self.dbfilename(ring.name))
ExportRingDir ==
    /\ pc = "ringdir"
    /\ LET name == keyrings[ri].name
           m == safe_makedirs(fs.ring[name])
           at == LoopAt(keyrings, ri, 1)
       IN
       IF m.exc.cls # "none"
       THEN Fail(m.exc) /\ UNCHANGED <<fs, written, ri, bi>>
       ELSE /\ fs' = [fs EXCEPT !.ring[name] = m.kind]
            /\ written' = IF fs.ring[name] = "dir" THEN written
                          ELSE [written EXCEPT !.dirs = @ \cup {name}]
            /\ pc' = at.pc
            /\ ri' = at.ri
            /\ bi' = at.bi
            /\ exc' = exc
    /\ UNCHANGED <<config, tool, keyrings, result, runNo, fs0, prevWritten>>
    /\ UNCHANGED <<groupVars, trustVars>>

\* export_action: with self.dbfile(<ring>/<exportfilename>, 'w') as f:
\*                    f.write(b.exportstr())
\* The file is opened, so created or emptied, before exportstr() is called.
ExportBlock ==
    /\ pc = "block"
    /\ LET name == keyrings[ri].name
           b == keyrings[ri].blocks[bi]
           fname == exportfilename(b)
           o == OpenW(NodeAt(fs.files[name], fname))
           opened == [fs EXCEPT !.files[name] = (fname :> o.node.data) @@ @]
           x == exportstr(b, tool)
           at == LoopAt(keyrings, ri, bi + 1)
       IN
       IF o.exc.cls # "none"
       THEN Fail(o.exc) /\ UNCHANGED <<fs, written, ri, bi>>
       ELSE /\ written' = [written EXCEPT !.keys = @ \cup {<<name, fname>>}]
            /\ IF x.exc.cls # "none"
               THEN Fail(x.exc) /\ fs' = opened /\ UNCHANGED <<ri, bi>>
               ELSE /\ fs' = [fs EXCEPT !.files[name] =
                                 (fname :> FWrite(o.node, x.out).data) @@ @]
                    /\ pc' = at.pc
                    /\ ri' = at.ri
                    /\ bi' = at.bi
                    /\ exc' = exc
    /\ UNCHANGED <<config, tool, keyrings, result, runNo, fs0, prevWritten>>
    /\ UNCHANGED <<groupVars, trustVars>>

\* export_action: with self.dbfile('ownertrust', 'w') as f:
\*                    f.write(Ownertrust().exportstr())
ExportOwnertrust ==
    /\ pc = "ownertrust"
    /\ LET o == OpenW(fs.ownertrust)
           x == OwnertrustExportstr(tool.trust)
       IN
       IF o.exc.cls # "none"
       THEN Fail(o.exc) /\ UNCHANGED <<fs, written>>
       ELSE /\ written' = [written EXCEPT !.ownertrust = TRUE]
            /\ IF x.exc.cls # "none"
               THEN Fail(x.exc) /\ fs' = [fs EXCEPT !.ownertrust = o.node]
               ELSE /\ fs' = [fs EXCEPT !.ownertrust = FWrite(o.node, x.out)]
                    /\ pc' = "exit"
                    /\ exc' = exc
    /\ UNCHANGED <<config, tool, keyrings, ri, bi, result, runNo, fs0, prevWritten>>
    /\ UNCHANGED <<groupVars, trustVars>>

\* __main__: except AppError prints the message and exits 1; another
\* exception is not caught and ends the process with a traceback.
ExitOf(e) ==
    IF e.cls = "none" THEN "exit 0"
    ELSE IF e.cls = "AppError" THEN "message, exit 1"
    ELSE "traceback"

Main ==
    /\ pc = "exit"
    /\ result' = ExitOf(exc)
    /\ pc' = "exited"
    /\ UNCHANGED <<config, tool, fs, exc, keyrings, ri, bi, runNo, fs0, written,
                   prevWritten>>
    /\ UNCHANGED <<groupVars, trustVars>>

\* The same command run again on the directory as the run before left it,
\* gpg answering as before.
Rerun ==
    /\ pc = "exited"
    /\ runNo < MaxRuns
    /\ runNo' = runNo + 1
    /\ fs0' = fs
    /\ prevWritten' = written
    /\ written' = NoneWritten
    /\ pc' = "init"
    /\ exc' = NoExc
    /\ keyrings' = <<>>
    /\ ri' = 1
    /\ bi' = 1
    /\ result' = "running"
    /\ UNCHANGED <<config, tool, fs>>
    /\ UNCHANGED <<groupVars, trustVars>>

Next ==
    \/ setup_gnupghome
    \/ import_action
    \/ ExportMakedirs
    \/ ExportCheckMeta
    \/ ExportWriteMeta
    \/ ExportKeyrings
    \/ ExportRingDir
    \/ ExportBlock
    \/ ExportOwnertrust
    \/ Main
    \/ Rerun

Spec == Init /\ [][Next]_vars

----------------------------------------------------------------------------
(* Grouplines on its own: every list of lines up to MaxLines. *)

LineSet == { <<>>, pubA, secB, <<" ">> }

InitGroup ==
    /\ lines \in SeqsUpTo(LineSet, MaxLines)
    /\ groups = <<>>
    /\ gdone = FALSE
    /\ config = MkConfig("export", FALSE, TRUE)
    /\ tool = MkTool(OneKey, FailedProc, 0, TrustProc)
    /\ fs = MkFs("absent", Absent, EmptyLayout)
    /\ fs0 = fs
    /\ pc = "idle"
    /\ exc = NoExc
    /\ keyrings = <<>>
    /\ ri = 1
    /\ bi = 1
    /\ result = "running"
    /\ runNo = 1
    /\ written = NoneWritten
    /\ prevWritten = NoneWritten
    /\ IdleTrust

\* Grouplines(lines)
GroupApply ==
    /\ ~gdone
    /\ groups' = Grouplines(lines)
    /\ gdone' = TRUE
    /\ UNCHANGED <<lines, runVars, trustVars>>

NextGroup == GroupApply

SpecGroup == InitGroup /\ [][NextGroup]_vars

----------------------------------------------------------------------------
(* Ownertrust on its own: an output of gpg --export-ownertrust, and a      *)
(* second one got from it by reordering lines and adding comment lines.    *)

TrustLineSet == { <<"a">>, <<"b">>, <<"#">>, <<>>, <<"a", " ">> }
CommentSet == { <<"#", "b">> }

InitTrust ==
    /\ trust0 \in SeqsUpTo(TrustLineSet, MaxTrustLines)
    /\ trustCur = trust0
    /\ trustStr = <<>>
    /\ config = MkConfig("export", FALSE, TRUE)
    /\ tool = MkTool(OneKey, FailedProc, 0, TrustProc)
    /\ fs = MkFs("absent", Absent, EmptyLayout)
    /\ fs0 = fs
    /\ pc = "idle"
    /\ exc = NoExc
    /\ keyrings = <<>>
    /\ ri = 1
    /\ bi = 1
    /\ result = "running"
    /\ runNo = 1
    /\ written = NoneWritten
    /\ prevWritten = NoneWritten
    /\ IdleGroup

\* gpg prints two neighbouring lines the other way round.
TrustSwap ==
    /\ trustStr = <<>>
    /\ \E i \in 1..(Len(trustCur) - 1) :
          trustCur' = [trustCur EXCEPT ![i] = trustCur[i + 1], ![i + 1] = trustCur[i]]
    /\ UNCHANGED <<trust0, trustStr, runVars, groupVars>>

\* gpg prints one more comment line.
TrustAddComment ==
    /\ trustStr = <<>>
    /\ Len(trustCur) < Len(trust0) + MaxTrustComments
    /\ \E i \in 0..Len(trustCur), c \in CommentSet :
          trustCur' = SubSeq(trustCur, 1, i) \o <<c>> \o SubSeq(trustCur, i + 1, Len(trustCur))
    /\ UNCHANGED <<trust0, trustStr, runVars, groupVars>>

\* Ownertrust().exportstr() on each of the two outputs
TrustExport ==
    /\ trustStr = <<>>
    /\ trustStr' = << OwnertrustExportstr([rc |-> 0, out |-> Printed(trust0)]).out,
                      OwnertrustExportstr([rc |-> 0, out |-> Printed(trustCur)]).out >>
    /\ UNCHANGED <<trust0, trustCur, runVars, groupVars>>

NextTrust ==
    \/ TrustSwap
    \/ TrustAddComment
    \/ TrustExport

SpecTrust == InitTrust /\ [][NextTrust]_vars

----------------------------------------------------------------------------
(* Properties. *)

Ended == pc \in {"exit", "exited"}
Exporting == config.action = "export"
Stamp(v) == FileOf(JsonDump(v))
NoMetaFile(f) == f.root # "dir" \/ f.meta.kind = "absent"
MetaError(e) == e.cls = "AppError" /\ e.msg \in {"Could not read", "claims version"}
WroteData(w) == w.keys # {} \/ w.ownertrust

\* C1: import's check_meta(True) fails with the could-not-read application
\* error when there is no gpgsplode_meta, with the version application error
\* when the stored version is any string other than '1.0', and returns
\* normally only when the stored version is '1.0'.
C1_VersionGate ==
    (config.action = "import" /\ config.gnupg_home_isdir /\ Ended) =>
        /\ NoMetaFile(fs) => exc = Raise("AppError", "Could not read")
        /\ \A v \in StoredVersions :
              (fs.root = "dir" /\ fs.meta = Stamp(v) /\ v # version)
                  => exc = Raise("AppError", "claims version")
        /\ exc = NoExc => (fs.root = "dir" /\ fs.meta = Stamp(version))

C1_Witness ==
    /\ config.action = "import"
    /\ pc = "exited"
    /\ fs.meta = Stamp("1.00")
    /\ exc = Raise("AppError", "claims version")
    /\ result = "message, exit 1"

\* C2: an export that finds a gpgsplode_meta of another version stops at the
\* metadata check with the version error and changes nothing in the snapshot
\* directory; and whatever an export run writes, it writes after
\* check_meta(False) has returned normally.
C2_MismatchWritesNothing ==
    Exporting =>
        /\ (\E v \in StoredVersions \ {version} : fs0.root = "dir" /\ fs0.meta = Stamp(v)) =>
              /\ fs = fs0
              /\ written = NoneWritten
              /\ pc \in {"init", "makedirs", "check_meta", "exit", "exited"}
              /\ (Ended /\ config.gnupg_home_isdir) => exc = Raise("AppError", "claims version")
        /\ (written.meta \/ WroteData(written) \/ written.dirs \ {"root"} # {}) =>
              check_meta([fs0 EXCEPT !.root = "dir"], FALSE) = NoExc

C2_Witness ==
    /\ Exporting
    /\ pc = "exited"
    /\ fs0.meta = Stamp("0.9")
    /\ fs0.files["pubring"] # <<>>
    /\ exc = Raise("AppError", "claims version")

\* The lines of a listing, as Keyring reads them.
ListingLines(proc) == Split(Strip(proc.out), NL)

IsDashRow(l) == l # <<>> /\ \A i \in DOMAIN l : l[i] = "-"

\* A listing of two lines or more whose first line does not start with '/'
\* or whose second line is no row of dashes.
BadShape(proc) ==
    LET ls == ListingLines(proc) IN
    /\ proc.rc = 0
    /\ Len(ls) >= 2
    /\ ~StartsWith(ls[1], "/") \/ ~IsDashRow(ls[2])

\* The same, the second line being one that does not begin with a dash.
BadShapeByPrefix(proc) ==
    LET ls == ListingLines(proc) IN
    /\ proc.rc = 0
    /\ Len(ls) >= 2
    /\ ~StartsWith(ls[1], "/") \/ ~StartsWith(ls[2], "-")

\* The run has listed a keyring, and gpg's listing was the i-th of RingOrder.
ListedAt(i) ==
    /\ Exporting
    /\ Ended
    /\ written.meta
    /\ i \in DOMAIN RingOrder(config)
    /\ \A j \in 1..(i - 1) :
          Keyring(RingOrder(config)[j], tool.list[RingOrder(config)[j]]).exc = NoExc

FormatError(e) == e.cls = "AppError" /\ e.msg \in {"keyring name", "gpg output"}

C4_Original ==
    \A r \in DOMAIN keyrings : \A b \in DOMAIN keyrings[r].blocks :
        LET blk == keyrings[r].blocks[b] IN
        blk.keytype \notin {pub, sec} =>
            /\ <<keyrings[r].name, exportfilename(blk)>> \notin written.keys
            /\ NodeAt(fs.files[keyrings[r].name], exportfilename(blk))
                   = NodeAt(fs0.files[keyrings[r].name], exportfilename(blk))

\* What gpg printed as the armor of block b, as sc2 returns it.
ArmorBody(b) == Strip(ArmorText(export_option(b).opt, b.keyid))

\* Block b of ring r is the last of the listing to be written to its file.
LastWriter(r, b) ==
    /\ \A b2 \in (b + 1)..Len(keyrings[r].blocks) :
          exportfilename(keyrings[r].blocks[b2]) # exportfilename(keyrings[r].blocks[b])
    /\ \A r2 \in (r + 1)..Len(keyrings) : keyrings[r2].name # keyrings[r].name

\* C5 as stated: the file written for a key is its description lines joined
\* by newlines, an empty line, the armor and one final newline, and the first
\* group of the file's lines is the description lines.
C5_Original ==
    result = "exit 0" =>
        \A r \in DOMAIN keyrings : \A b \in DOMAIN keyrings[r].blocks :
            LET blk == keyrings[r].blocks[b]
                text == fs.files[keyrings[r].name][exportfilename(blk)]
            IN
            LastWriter(r, b) =>
                /\ text = Join(blk.description_lines, <<NL>>) \o <<NL, NL>>
                              \o ArmorBody(blk) \o <<NL>>
                /\ Grouplines(Split(text, NL))[1] = blk.description_lines

\* C6: an export run again on the directory the run before left, gpg
\* answering the same, leaves every file and directory as the run before left
\* it, having opened the same files for writing; its metadata check passes on
\* the stamp of the run before.
C6_ExportIdempotent ==
    (Exporting /\ runNo >= 2 /\ pc = "exited") =>
        /\ fs = fs0
        /\ written.keys = prevWritten.keys
        /\ written.meta = prevWritten.meta
        /\ written.ownertrust = prevWritten.ownertrust
        /\ prevWritten.meta => ~MetaError(exc)

C6_Witness ==
    /\ Exporting
    /\ runNo = 2
    /\ pc = "exited"
    /\ result = "exit 0"
    /\ Cardinality(written.keys) = 2
    /\ written.ownertrust

\* The conditions of the error taxonomy, by the message of what is raised.
TaxonomyConditions ==
    { "$GNUPGHOME missing", "keyring name", "gpg output", "list index out of range",
      "unknown keytype", "gpg exited non-zero", "something in the way", "Could not read",
      "claims version" }

\* C8 as stated: each failure condition of the taxonomy ends the run with
\* the message printed and exit status 1, the exception being an AppError
\* that __main__ catches.
C8_Original ==
    (pc = "exited" /\ exc.msg \in TaxonomyConditions) =>
        (exc.cls = "AppError" /\ result = "message, exit 1")

\* C9: whenever an export run has listed a keyring, or has opened a key file
\* or ownertrust for writing, it has stamped gpgsplode_meta with the current
\* version, and the stamp is there; so it is in a run that failed later, and
\* the export run after such a run passes its metadata check.
C9_StampFirst ==
    Exporting =>
        /\ (WroteData(written) \/ keyrings # <<>> \/ FormatError(exc)
                \/ pc \in {"ringdir", "block", "ownertrust"}) =>
              /\ written.meta
              /\ fs.meta = Stamp(version)
              /\ check_meta(fs, FALSE) = NoExc
        /\ (runNo >= 2 /\ WroteData(prevWritten)) =>
              /\ fs.meta = Stamp(version)
              /\ Ended => (written.meta /\ ~MetaError(exc))

C9_Witness ==
    /\ Exporting
    /\ runNo = 2
    /\ pc = "exited"
    /\ exc = Raise("AppError", "unknown keytype")
    /\ written.keys # {}
    /\ WroteData(prevWritten)
    /\ fs.meta = Stamp(version)

----------------------------------------------------------------------------
(* Properties of Grouplines and of Ownertrust. *)

RECURSIVE Concat(_)
Concat(ss) == IF ss = <<>> THEN <<>> ELSE Head(ss) \o Concat(Tail(ss))

RECURSIVE NonBlank(_)
NonBlank(ls) ==
    IF ls = <<>> THEN <<>>
    ELSE (IF Head(ls) = <<>> THEN <<>> ELSE <<Head(ls)>>) \o NonBlank(Tail(ls))

\* The places where a run of non-blank lines starts.
RunStarts(ls) == { i \in DOMAIN ls : ls[i] # <<>> /\ (i = 1 \/ ls[i - 1] = <<>>) }

\* C10: the groups are the maximal runs of non-blank lines, in order: none
\* is empty, none holds a blank line, together they are the non-blank lines,
\* there is one for each place a run starts (so a last run that no blank line
\* follows is one, and blank lines alone give none); and the blocks made of
\* them are one for each group, in the same order.
C10_GroupsAreMaximalRuns ==
    gdone =>
        /\ \A g \in DOMAIN groups :
              groups[g] # <<>> /\ \A i \in DOMAIN groups[g] : groups[g][i] # <<>>
        /\ Concat(groups) = NonBlank(lines)
        /\ Len(groups) = Cardinality(RunStarts(lines))
        /\ (lines # <<>> /\ lines[Len(lines)] # <<>>) =>
              (groups # <<>> /\ groups[Len(groups)][Len(groups[Len(groups)])] = lines[Len(lines)])
        /\ (\A i \in DOMAIN lines : lines[i] = <<>>) => groups = <<>>
        /\ LET bs == Blocks(groups) IN
           bs.exc = NoExc =>
              /\ Len(bs.blocks) = Len(groups)
              /\ \A g \in DOMAIN groups : bs.blocks[g].description_lines = groups[g]

C10_Witness ==
    /\ gdone
    /\ Len(lines) = 5
    /\ lines[2] = <<>>
    /\ Len(groups) = 2
    /\ Len(groups[2]) = 2
    /\ Blocks(groups).exc = NoExc

\* The lines of a gpg output as Ownertrust.exportstr gets them from sc2.
TrustRead(ls) == Split(Sc2([rc |-> 0, out |-> Printed(ls)]).out, NL)

Count(ls, l) == Cardinality({ i \in DOMAIN ls : ls[i] = l })
Lines(ls) == { ls[i] : i \in DOMAIN ls }

\* a and b hold the same lines that are no comments, each as often.
SameNonComments(a, b) ==
    \A l \in Lines(a) \cup Lines(b) : ~StartsWith(l, "#") => Count(a, l) = Count(b, l)

Ordered(ls) == \A i \in DOMAIN ls : \A j \in DOMAIN ls : i < j => StrLeq(ls[i], ls[j])

\* ls is the lines of base that are no comments, in lexicographic order.
IsSortedNonComments(ls, base) ==
    /\ Ordered(ls)
    /\ \A i \in DOMAIN ls : ~StartsWith(ls[i], "#")
    /\ SameNonComments(ls, base)

====
